---- MODULE Spec2Model ----
(***************************************************************************)
(* A model of the S3-compatible storage server of go-faster/fs (s3.go):    *)
(* the filesystem-backed backend (S3Server methods), the prefix listing,   *)
(* and the read/write lock that guards them.                               *)
(*                                                                         *)
(* Strings (bucket names, keys, prefixes, file paths) are tuples of        *)
(* one-character strings, so that splitting, cleaning and prefix tests are *)
(* computed character by character as the Go library computes them.        *)
(* File modification times are not part of the model.                      *)
(***************************************************************************)
EXTENDS Integers, Sequences, FiniteSets, TLC

(***************************************************************************)
(* strings                                                                 *)
(***************************************************************************)

\* os.PathSeparator on the platforms the server is built for (unix).
Separator == "/"

\* byte order of the characters used in names (ASCII), for sorted directory reads
Rank(c) ==
  CASE c = "." -> 46
    [] c = "/" -> 47
    [] c = "a" -> 97
    [] c = "b" -> 98
    [] c = "d" -> 100
    [] c = "k" -> 107
    [] c = "r" -> 114
    [] OTHER -> 127

\* s < t in Go's string order (bytewise lexicographic)
StrLess(s, t) ==
  \E i \in 1..(Len(t)) :
     /\ \A j \in 1..(i-1) : j <= Len(s) /\ s[j] = t[j]
     /\ \/ i = Len(s) + 1
        \/ i <= Len(s) /\ Rank(s[i]) < Rank(t[i])

\* strings.HasPrefix
HasPrefix(s, prefix) ==
  /\ Len(prefix) <= Len(s)
  /\ SubSeq(s, 1, Len(prefix)) = prefix

\* strings.Index for a one-character separator; 0 when absent (Go: -1)
Index(s, c) ==
  IF \E i \in 1..Len(s) : s[i] = c
  THEN CHOOSE i \in 1..Len(s) : s[i] = c /\ \A j \in 1..(i-1) : s[j] # c
  ELSE 0

\* strings.LastIndex for a one-character separator; 0 when absent
LastIndex(s, c) ==
  IF \E i \in 1..Len(s) : s[i] = c
  THEN CHOOSE i \in 1..Len(s) : s[i] = c /\ \A j \in (i+1)..Len(s) : s[j] # c
  ELSE 0

\* strings.Split(s, "/")
RECURSIVE Split(_)
Split(s) ==
  LET i == Index(s, "/")
  IN IF i = 0 THEN << s >>
     ELSE << SubSeq(s, 1, i-1) >> \o Split(SubSeq(s, i+1, Len(s)))

\* strings.Join(elems, "/")
RECURSIVE JoinSep(_)
JoinSep(elems) ==
  IF Len(elems) = 0 THEN << >>
  ELSE IF Len(elems) = 1 THEN elems[1]
  ELSE elems[1] \o << "/" >> \o JoinSep(Tail(elems))

Dot == << "." >>
DotDot == << ".", "." >>

\* the element loop of filepath.Clean: drops empty and "." elements, and lets
\* ".." remove the element before it; ".." at the start of a rooted path is dropped
RECURSIVE CleanSegs(_, _, _)
CleanSegs(segs, out, rooted) ==
  IF Len(segs) = 0 THEN out
  ELSE LET e == Head(segs)
           next == IF e = << >> \/ e = Dot THEN out
                   ELSE IF e = DotDot
                        THEN IF Len(out) > 0 /\ out[Len(out)] # DotDot
                             THEN SubSeq(out, 1, Len(out) - 1)
                             ELSE IF rooted THEN out ELSE Append(out, e)
                        ELSE Append(out, e)
       IN CleanSegs(Tail(segs), next, rooted)

\* filepath.Clean
Clean(path) ==
  IF Len(path) = 0 THEN Dot
  ELSE LET rooted == path[1] = "/"
           segs == CleanSegs(Split(path), << >>, rooted)
       IN IF rooted THEN << "/" >> \o JoinSep(segs)
          ELSE IF Len(segs) = 0 THEN Dot ELSE JoinSep(segs)

\* filepath.Join: the elements from the first non-empty one on, joined and cleaned
RECURSIVE Join(_)
Join(elems) ==
  IF Len(elems) = 0 THEN << >>
  ELSE IF Head(elems) # << >> THEN Clean(JoinSep(elems))
  ELSE Join(Tail(elems))

\* filepath.Dir: the path up to its last separator, cleaned
DirOf(path) == Clean(SubSeq(path, 1, LastIndex(path, "/")))

\* filepath.Base of a cleaned path: the name of the directory entry
Base(path) == SubSeq(path, LastIndex(path, "/") + 1, Len(path))

\* filepath.Rel(base, targ) for targ = base or a path below base, the only
\* calls filepath.Walk's callback makes
Rel(base, targ) ==
  IF targ = base THEN Dot
  ELSE IF base = << "/" >> THEN SubSeq(targ, 2, Len(targ))
  ELSE SubSeq(targ, Len(base) + 2, Len(targ))

\* filepath.ToSlash: every Separator becomes a forward slash
ToSlash(path) == [i \in 1..Len(path) |-> IF path[i] = Separator THEN "/" ELSE path[i]]

(***************************************************************************)
(* inputs                                                                  *)
(***************************************************************************)

\* the longest request body
MaxLen == 1

NoStr == << >>

\* the buckets and objects the calls address: in bucket a a nested key, a key
\* that shares a string prefix with it, a key with a trailing slash and a key
\* that climbs out of the bucket into bucket b
BucketNames == { << "a" >>, << "b" >> }
Objects == { << << "a" >>, << "d" >> >>,
             << << "a" >>, << "d", "/", "k" >> >>,
             << << "a" >>, << "d", "k" >> >>,
             << << "a" >>, << "d", "/" >> >>,
             << << "a" >>, << ".", ".", "/", "b", "/", "d" >> >>,
             << << "b" >>, << "d" >> >> }
Prefixes == { NoStr, << "d" >>, << "d", "/" >>, << "k" >> }

\* the calls that also address the storage root itself (PUT / and DELETE /
\* reach the backend with the empty bucket name)
RootBucketNames == { << "a" >>, NoStr }
RootObjects == { << << "a" >>, << "d" >> >>,
                 << << "a" >>, << "d", "/", "k" >> >>,
                 << << "a" >>, << "d", "/" >> >>,
                 << NoStr, << "d" >> >> }
RootPrefixes == { NoStr, << "d" >>, << "d", "/" >> }

\* request bodies: up to MaxLen bytes of one value, read to EOF
ByteValues == {1, 2}
Bytes(n, v) == [i \in 1..n |-> v]
Payloads == {Bytes(n, v) : n \in 0..MaxLen, v \in ByteValues}
Readers == {[data |-> data, fail |-> FALSE] : data \in Payloads}

\* request bodies whose copy ends in an error (the connection breaks, the disk
\* is full) after the bytes in data have been written
FailingReaders == {[data |-> data, fail |-> TRUE] : data \in Payloads}
\* r.ContentLength of a request that declares no length (chunked encoding)
UnknownLength == -1

\* the objects such bodies are sent to: a plain key and a nested key
StreamObjects == { << << "a" >>, << "d" >> >>, << << "a" >>, << "d", "/", "k" >> >> }

\* the Write calls one response makes at most (xml.Header, the document): a
\* connection that takes this many never fails the handler
NoFailure == 2

\* S3Server.root: the storage root, an absolute path (cmd/fs makes it absolute)
Root == << "/", "r" >>
Slash == << "/" >>

(***************************************************************************)
(* The paths the calls above can name are few, so filepath.Join and        *)
(* filepath.Dir are computed once for each of them and looked up after.    *)
(***************************************************************************)

\* a bucket segment of a request path that is also a key of the root
HTTPBucketNames == { << "d" >> }

AllBucketNames == BucketNames \cup RootBucketNames \cup HTTPBucketNames
AllObjects == Objects \cup RootObjects

BucketPaths == [bucket \in AllBucketNames |-> Join(<< Root, bucket >>)]
ObjectPaths == [obj \in AllObjects |-> Join(<< Root, obj[1], obj[2] >>)]

RECURSIVE Ancestors(_)
Ancestors(path) == IF path = Slash THEN {path} ELSE {path} \cup Ancestors(DirOf(path))

AllPaths ==
  UNION ({Ancestors(BucketPaths[b]) : b \in AllBucketNames}
         \cup {Ancestors(ObjectPaths[obj]) : obj \in AllObjects})

Dirs == [path \in AllPaths |-> DirOf(path)]
Dir(path) == Dirs[path]

(***************************************************************************)
(* the filesystem: a function from cleaned absolute paths to nodes.  Every *)
(* path but "/" has its parent directory in the domain.                    *)
(***************************************************************************)

DirNode == [data |-> << >>, kind |-> "dir"]
FileNode(data) == [data |-> data, kind |-> "file"]

Exists(f, path) == path \in DOMAIN f
IsDir(f, path) == path \in DOMAIN f /\ f[path].kind = "dir"
IsRegular(f, path) == path \in DOMAIN f /\ f[path].kind = "file"

\* the directory entries of path
Children(f, path) == {q \in DOMAIN f : q # path /\ Dir(q) = path}

\* os.FileInfo.Size(): the length of a regular file; system-dependent for a
\* directory (the size of a directory block)
NodeSize(node) == IF node.kind = "dir" THEN 4096 ELSE Len(node.data)

\* os.Stat / os.Lstat (there are no symbolic links)
Stat(f, path) ==
  IF Exists(f, path)
  THEN [err |-> FALSE, isDir |-> f[path].kind = "dir", size |-> NodeSize(f[path])]
  ELSE [err |-> TRUE, isDir |-> FALSE, size |-> 0]

\* os.Mkdir
Mkdir(f, path) ==
  IF ~Exists(f, path) /\ IsDir(f, Dir(path))
  THEN [err |-> FALSE,
        fs |-> [q \in DOMAIN f \cup {path} |-> IF q = path THEN DirNode ELSE f[q]]]
  ELSE [err |-> TRUE, fs |-> f]

\* os.MkdirAll: nothing to do for a directory, an error for a file, else the
\* parent first and then the directory itself
RECURSIVE MkdirAll(_, _)
MkdirAll(f, path) ==
  IF Exists(f, path)
  THEN [err |-> ~IsDir(f, path), fs |-> f]
  ELSE LET up == MkdirAll(f, Dir(path))
       IN IF up.err THEN [err |-> TRUE, fs |-> f] ELSE Mkdir(up.fs, path)

\* os.OpenFile without O_TRUNC: an existing file keeps its bytes
CreateNoTrunc(f, path) ==
  IF IsDir(f, path) \/ ~IsDir(f, Dir(path))
  THEN [err |-> TRUE, fs |-> f]
  ELSE [err |-> FALSE,
        fs |-> [q \in DOMAIN f \cup {path} |->
                  IF q = path /\ ~Exists(f, path) THEN FileNode(<< >>) ELSE f[q]]]

\* a create that replaces whatever is at the path, a directory included
CreateOverDirectory(f, path) ==
  IF ~IsDir(f, Dir(path))
  THEN [err |-> TRUE, fs |-> f]
  ELSE [err |-> FALSE,
        fs |-> [q \in DOMAIN f \cup {path} |-> IF q = path THEN FileNode(<< >>) ELSE f[q]]]

\* os.Create: open with O_RDWR|O_CREATE|O_TRUNC; an existing file is emptied
Create(f, path) ==
  IF IsDir(f, path) \/ ~IsDir(f, Dir(path))
  THEN [err |-> TRUE, fs |-> f]
  ELSE [err |-> FALSE,
        fs |-> [q \in DOMAIN f \cup {path} |-> IF q = path THEN FileNode(<< >>) ELSE f[q]]]

\* an open with O_RDWR|O_CREATE|O_TRUNC in place of the read-only open
OpenTruncating(f, path) == Create(f, path)

\* os.Open: O_RDONLY; fails on a missing path and leaves the tree as it is
Open(f, path) == [err |-> ~Exists(f, path), fs |-> f]

\* File.Write at the end of the file just created (io.Copy's destination)
WriteFile(f, path, bytes) ==
  [f EXCEPT ![path] = FileNode(f[path].data \o bytes)]

\* os.Remove: unlinks a file or removes an empty directory
Remove(f, path) ==
  IF ~Exists(f, path) \/ path = Slash \/ Children(f, path) # {}
  THEN [err |-> TRUE, fs |-> f]
  ELSE [err |-> FALSE, fs |-> [q \in DOMAIN f \ {path} |-> f[q]]]

\* the names in S in increasing order (os.ReadDir and filepath.Walk both sort)
RECURSIVE SortNames(_)
SortNames(S) ==
  IF S = {} THEN << >>
  ELSE LET m == CHOOSE x \in S : \A y \in S \ {x} : StrLess(x, y)
       IN << m >> \o SortNames(S \ {m})

\* os.ReadDir: the entries of a directory, sorted by filename
ReadDir(f, path) ==
  IF IsDir(f, path)
  THEN [err |-> FALSE, entries |-> SortNames({Base(q) : q \in Children(f, path)})]
  ELSE [err |-> TRUE, entries |-> << >>]

\* filepath.Join(path, name) for a cleaned path and the name of one of its entries
ChildPath(path, name) ==
  IF path = Slash THEN Slash \o name ELSE path \o Slash \o name

\* filepath.walk below an existing path: the path itself, then, for a
\* directory, its entries in lexical order, each walked in turn
RECURSIVE WalkTree(_, _)
RECURSIVE WalkNames(_, _, _)
WalkTree(f, path) ==
  IF IsDir(f, path)
  THEN << path >> \o WalkNames(f, path, SortNames({Base(q) : q \in Children(f, path)}))
  ELSE << path >>
WalkNames(f, path, names) ==
  IF Len(names) = 0 THEN << >>
  ELSE WalkTree(f, ChildPath(path, Head(names))) \o WalkNames(f, path, Tail(names))

\* filepath.Walk: the visits in order; a root that cannot be stat'ed is handed
\* to the callback with the error, which the callback returns
Walk(f, root) ==
  IF Exists(f, root) THEN [err |-> FALSE, visits |-> WalkTree(f, root)]
  ELSE [err |-> TRUE, visits |-> << >>]



(***************************************************************************)
(* the backend: the body of each S3Server method, between taking and       *)
(* releasing the lock, as a function of the filesystem                     *)
(***************************************************************************)

\* strings.Contains
Contains(s, sub) ==
  \E i \in 0..(Len(s) - Len(sub)) : SubSeq(s, i + 1, i + Len(sub)) = sub

\* the walk callback with strings.Contains in place of strings.HasPrefix
WalkFnContains(f, bucketPath, prefix, objects, path) ==
  IF IsDir(f, path) THEN objects
  ELSE LET key == ToSlash(Rel(bucketPath, path))
       IN IF prefix = << >> \/ Contains(key, prefix)
          THEN Append(objects, [Key |-> key, Size |-> NodeSize(f[path]), ETag |-> << >>])
          ELSE objects

\* the new objects slice after the walk callback has seen one visited path:
\* directories are skipped, a file's path relative to the bucket becomes its
\* key, and the key is kept when the prefix is empty or begins it
WalkFn(f, bucketPath, prefix, objects, path) ==
  IF IsDir(f, path) THEN objects
  ELSE LET relPath == Rel(bucketPath, path)
           key == ToSlash(relPath)
       IN IF prefix = << >> \/ HasPrefix(key, prefix)
          THEN Append(objects, [Key |-> key, Size |-> NodeSize(f[path]), ETag |-> << >>])
          ELSE objects

RECURSIVE WalkAll(_, _, _, _, _)
WalkAll(f, bucketPath, prefix, objects, visits) ==
  IF Len(visits) = 0 THEN objects
  ELSE WalkAll(f, bucketPath, prefix,
               WalkFn(f, bucketPath, prefix, objects, Head(visits)), Tail(visits))

\* the entries that are directories, as buckets, in ReadDir's order
RECURSIVE DirEntries(_, _, _)
DirEntries(f, path, names) ==
  IF Len(names) = 0 THEN << >>
  ELSE (IF IsDir(f, ChildPath(path, Head(names)))
        THEN << [Name |-> Head(names)] >> ELSE << >>)
       \o DirEntries(f, path, Tail(names))

ListBucketsBody(f) ==
  LET rd == ReadDir(f, Root)
  IN IF rd.err THEN [err |-> TRUE, buckets |-> << >>]
     ELSE [err |-> FALSE, buckets |-> DirEntries(f, Root, rd.entries)]

\* CreateBucket with os.Mkdir in place of os.MkdirAll
CreateBucketMkdir(f, bucket) == Mkdir(f, BucketPaths[bucket])

CreateBucketBody(f, bucket) ==
  LET bucketPath == BucketPaths[bucket]
  IN MkdirAll(f, bucketPath)

\* DeleteBucket with os.RemoveAll in place of os.Remove
DeleteBucketRemoveAll(f, bucket) ==
  LET bucketPath == BucketPaths[bucket]
  IN [err |-> FALSE,
      fs |-> [q \in {x \in DOMAIN f : bucketPath \notin Ancestors(x)} |-> f[q]]]

DeleteBucketBody(f, bucket) ==
  LET bucketPath == BucketPaths[bucket]
  IN Remove(f, bucketPath)

\* PutObject rejecting a key that has a ".." segment
PutObjectBodyValidated(f, bucket, key, reader, size) ==
  LET objectPath == ObjectPaths[<< bucket, key >>]
      made == MkdirAll(f, Dir(objectPath))
  IN IF DotDot \in {Split(key)[i] : i \in 1..Len(Split(key))} \/ made.err
     THEN [err |-> TRUE, fs |-> f]
     ELSE LET created == Create(made.fs, objectPath)
          IN IF created.err THEN [err |-> TRUE, fs |-> made.fs]
             ELSE [err |-> reader.fail,
                   fs |-> WriteFile(created.fs, objectPath, reader.data)]

\* PutObject writing to a staging file that is renamed only on success
PutObjectBodyStaged(f, bucket, key, reader, size) ==
  LET objectPath == ObjectPaths[<< bucket, key >>]
      made == MkdirAll(f, Dir(objectPath))
  IN IF made.err THEN [err |-> TRUE, fs |-> f]
     ELSE LET created == Create(made.fs, objectPath)
          IN IF created.err \/ reader.fail THEN [err |-> TRUE, fs |-> made.fs]
             ELSE [err |-> FALSE,
                   fs |-> WriteFile(created.fs, objectPath, reader.data)]

\* reader: [data, fail]: the bytes the request body yields, and whether it
\* ends with a read error instead of EOF.  size is the declared length.
PutObjectBody(f, bucket, key, reader, size) ==
  LET objectPath == ObjectPaths[<< bucket, key >>]
      made == MkdirAll(f, Dir(objectPath))
  IN IF made.err THEN [err |-> TRUE, fs |-> f]
     ELSE LET created == Create(made.fs, objectPath)
          IN IF created.err THEN [err |-> TRUE, fs |-> made.fs]
             ELSE [err |-> reader.fail,
                   fs |-> WriteFile(created.fs, objectPath, reader.data)]

\* the returned stream is the open file, named here by its path
GetObjectBody(f, bucket, key) ==
  LET objectPath == ObjectPaths[<< bucket, key >>]
      info == Stat(f, objectPath)
      opened == Open(f, objectPath)
  IN IF info.err THEN [err |-> TRUE, size |-> 0, fs |-> f, file |-> << >>]
     ELSE IF opened.err THEN [err |-> TRUE, size |-> 0, fs |-> opened.fs, file |-> << >>]
     ELSE [err |-> FALSE, size |-> info.size, fs |-> opened.fs, file |-> objectPath]

DeleteObjectBody(f, bucket, key) ==
  LET objectPath == ObjectPaths[<< bucket, key >>]
  IN Remove(f, objectPath)

ListObjectsBody(f, bucket, prefix) ==
  LET bucketPath == BucketPaths[bucket]
      walked == Walk(f, bucketPath)
  IN IF walked.err THEN [err |-> TRUE, objects |-> << >>]
     ELSE [err |-> FALSE,
           objects |-> WalkAll(f, bucketPath, prefix, << >>, walked.visits)]

\* reading an open file to its end (io.Copy / io.ReadAll on the stream):
\* the bytes of a regular file; a read error, and no bytes, on a directory
ReadStream(f, file) ==
  IF IsRegular(f, file) THEN [data |-> f[file].data, err |-> FALSE]
  ELSE [data |-> << >>, err |-> TRUE]

(***************************************************************************)
(* state                                                                   *)
(***************************************************************************)

VARIABLES
  fs,        \* the filesystem
  last,      \* the last call that returned: its arguments and what it returned
  written,   \* per bucket, the keys PutObject stored successfully so far
  noDelete,  \* no DeleteObject or DeleteBucket has succeeded so far
  deleted,   \* the (bucket, key) of the latest successful DeleteObject that
             \* no PutObject to the same file has followed, else << >>
  created,   \* the bucket names CreateBucket made and DeleteBucket has not removed
  replaced,  \* what the latest call, if a PutObject, found at its
             \* path: whether a file was there, its length, whether its key was listed
  mu,        \* S3Server.mu: who holds or is taking the write lock, who holds read locks
  pc,        \* per request goroutine, where it is in its handler
  req,       \* per request goroutine, the request it is serving
  loc,       \* per request goroutine, its local variables and its response so far
  stored,    \* the payloads of the PutObject calls that returned success
  http       \* the last HTTP request served: the request, the backend calls
             \* made for it, the response

history == << written, noDelete, deleted, created, replaced >>
conc == << mu, pc, req, loc, stored >>
vars == << fs, last, written, noDelete, deleted, created, replaced, mu, pc, req, loc,
          stored, http >>

\* the request goroutines running at once
Procs == {"p1", "p2"}
NoProc == "none"

NoReader == [data |-> << >>, fail |-> FALSE]
NoOut == [data |-> << >>, size |-> 0, objects |-> << >>, buckets |-> << >>,
          readErr |-> FALSE, closeErr |-> FALSE]

\* an open file: the path it was opened at; once the file is unlinked the
\* handle keeps the bytes it had (a later file of that name is another file)
NoFile == [path |-> NoStr, data |-> << >>, open |-> FALSE, dir |-> FALSE,
           detached |-> FALSE]
NoLoc == [err |-> FALSE, size |-> 0, objects |-> << >>, buckets |-> << >>, file |-> NoFile,
          status |-> 0, body |-> << >>, off |-> 0]
Req(op, bucket, key, prefix, reader) ==
  [prefix |-> prefix, bucket |-> bucket, key |-> key, reader |-> reader, op |-> op]
NoReq == Req("none", NoStr, NoStr, NoStr, NoReader)

Call(op, bucket, key, prefix, reader, size, err, out) ==
  [prefix |-> prefix, out |-> out, bucket |-> bucket, err |-> err,
   key |-> key, reader |-> reader, op |-> op, declared |-> size]

\* NewS3Server: the root directory exists
Init ==
  /\ fs = [q \in {Slash, Root} |-> DirNode]
  /\ last = Call("none", NoStr, NoStr, NoStr, NoReader, 0, FALSE, NoOut)
  /\ written = [b \in AllBucketNames |-> {}]
  /\ noDelete = TRUE
  /\ deleted = << >>
  /\ created = {}
  /\ replaced = [was |-> FALSE, listed |-> FALSE, len |-> 0]
  /\ mu = [w |-> NoProc, readers |-> {}]
  /\ pc = [p \in Procs |-> "idle"]
  /\ req = [p \in Procs |-> NoReq]
  /\ loc = [p \in Procs |-> NoLoc]
  /\ stored = {}
  /\ http = [w |-> [status |-> 0, body |-> << >>,
                    header |-> [ContentType |-> "", ContentLength |-> -1],
                    sent |-> [ContentType |-> "", ContentLength |-> -1],
                    codes |-> << >>, left |-> NoFailure],
             r |-> [prefix |-> NoStr, path |-> NoStr, body |-> NoReader, method |-> "",
                    length |-> 0, writes |-> NoFailure],
             calls |-> << >>]

(***************************************************************************)
(* one call of each backend method by a single caller: Lock, body, Unlock  *)
(***************************************************************************)

ListBuckets ==
  LET r == ListBucketsBody(fs)
  IN /\ last' = Call("ListBuckets", NoStr, NoStr, NoStr, NoReader, 0, r.err,
                     [NoOut EXCEPT !.buckets = r.buckets])
     /\ UNCHANGED fs

CreateBucket(bucket) ==
  LET r == CreateBucketBody(fs, bucket)
  IN /\ fs' = r.fs
     /\ last' = Call("CreateBucket", bucket, NoStr, NoStr, NoReader, 0, r.err, NoOut)

DeleteBucket(bucket) ==
  LET r == DeleteBucketBody(fs, bucket)
  IN /\ fs' = r.fs
     /\ last' = Call("DeleteBucket", bucket, NoStr, NoStr, NoReader, 0, r.err, NoOut)

PutObject(bucket, key, reader, size) ==
  LET r == PutObjectBody(fs, bucket, key, reader, size)
  IN /\ fs' = r.fs
     /\ last' = Call("PutObject", bucket, key, NoStr, reader, size, r.err, NoOut)

\* the deferred function of PutObject: with cerr, a failed f.Close(), and the
\* local err still nil it assigns the local err; the result of PutObject is
\* unnamed, so it stays what the return statement evaluated (ret)
DeferredClose(ret, err, cerr) ==
  LET frame == [err |-> IF cerr /\ ~err THEN TRUE ELSE err, result |-> ret]
  IN frame.result

\* PutObject whose file, once created, fails to close (cerr)
PutObjectClose(bucket, key, reader, size, cerr) ==
  LET r == PutObjectBody(fs, bucket, key, reader, size)
  IN /\ ~PutObjectBody(fs, bucket, key, [reader EXCEPT !.fail = FALSE], size).err
     /\ fs' = r.fs
     /\ last' = Call("PutObject", bucket, key, NoStr, reader, size,
                     DeferredClose(r.err, FALSE, cerr),
                     [NoOut EXCEPT !.closeErr = cerr])

\* the caller reads the returned stream to its end and closes it
GetObject(bucket, key) ==
  LET r == GetObjectBody(fs, bucket, key)
      s == ReadStream(r.fs, r.file)
  IN /\ last' = Call("GetObject", bucket, key, NoStr, NoReader, 0, r.err,
                     IF r.err THEN NoOut
                     ELSE [NoOut EXCEPT !.data = s.data, !.size = r.size,
                                        !.readErr = s.err])
     /\ fs' = r.fs

DeleteObject(bucket, key) ==
  LET r == DeleteObjectBody(fs, bucket, key)
  IN /\ fs' = r.fs
     /\ last' = Call("DeleteObject", bucket, key, NoStr, NoReader, 0, r.err, NoOut)

ListObjects(bucket, prefix) ==
  LET r == ListObjectsBody(fs, bucket, prefix)
  IN /\ last' = Call("ListObjects", bucket, NoStr, prefix, NoReader, 0, r.err,
                     [NoOut EXCEPT !.objects = r.objects])
     /\ UNCHANGED fs

\* what a PutObject to (bucket, key) is about to replace
Before(f, bucket, key) ==
  LET objectPath == ObjectPaths[<< bucket, key >>]
      l == ListObjectsBody(f, bucket, NoStr)
  IN [was |-> IsRegular(f, objectPath),
      listed |-> \E i \in 1..Len(l.objects) : l.objects[i].Key = key,
      len |-> IF IsRegular(f, objectPath) THEN Len(f[objectPath].data) ELSE 0]

\* the history variables after the call recorded in last'
Track ==
  LET c == last'
      ok == ~c.err
  IN /\ created' = IF ok /\ c.op = "CreateBucket" THEN created \cup {c.bucket}
                   ELSE IF ok /\ c.op = "DeleteBucket" THEN created \ {c.bucket}
                   ELSE created
     /\ noDelete' = (noDelete /\ ~(ok /\ c.op \in {"DeleteBucket", "DeleteObject"}))
     /\ written' = IF ~noDelete' THEN [b \in AllBucketNames |-> {}]
                   ELSE IF ok /\ c.op = "PutObject"
                        THEN [written EXCEPT ![c.bucket] = @ \cup {c.key}]
                        ELSE written
     /\ deleted' = IF ok /\ c.op = "DeleteObject" THEN << c.bucket, c.key >>
                   ELSE IF /\ c.op = "PutObject"
                           /\ deleted # << >>
                           /\ ObjectPaths[deleted] = ObjectPaths[<< c.bucket, c.key >>]
                        THEN << >>
                        ELSE deleted
     /\ replaced' = IF c.op = "PutObject" THEN Before(fs, c.bucket, c.key)
                    ELSE [was |-> FALSE, listed |-> FALSE, len |-> 0]

Next ==
  \/ ListBuckets /\ UNCHANGED << history, conc, http >>
  \/ \E bucket \in BucketNames : CreateBucket(bucket) /\ UNCHANGED << history, conc, http >>
  \/ \E bucket \in BucketNames : DeleteBucket(bucket) /\ UNCHANGED << history, conc, http >>
  \/ \E obj \in Objects, reader \in Readers :
       PutObject(obj[1], obj[2], reader, Len(reader.data)) /\ UNCHANGED << history, conc, http >>
  \/ \E obj \in Objects : GetObject(obj[1], obj[2]) /\ UNCHANGED << history, conc, http >>
  \/ \E obj \in Objects : DeleteObject(obj[1], obj[2]) /\ UNCHANGED << history, conc, http >>
  \/ \E bucket \in BucketNames, prefix \in Prefixes :
       ListObjects(bucket, prefix) /\ UNCHANGED << history, conc, http >>

\* the same calls, the storage root among their targets, with the history kept
NextRoot ==
  \/ ListBuckets /\ Track /\ UNCHANGED << conc, http >>
  \/ \E bucket \in RootBucketNames : CreateBucket(bucket) /\ Track /\ UNCHANGED << conc, http >>
  \/ \E bucket \in RootBucketNames : DeleteBucket(bucket) /\ Track /\ UNCHANGED << conc, http >>
  \/ \E obj \in RootObjects, reader \in Readers :
       PutObject(obj[1], obj[2], reader, Len(reader.data)) /\ Track /\ UNCHANGED << conc, http >>
  \/ \E obj \in RootObjects : GetObject(obj[1], obj[2]) /\ Track /\ UNCHANGED << conc, http >>
  \/ \E obj \in RootObjects : DeleteObject(obj[1], obj[2]) /\ Track /\ UNCHANGED << conc, http >>
  \/ \E bucket \in RootBucketNames, prefix \in RootPrefixes :
       ListObjects(bucket, prefix) /\ Track /\ UNCHANGED << conc, http >>

\* calls whose request body may break off, with the history kept
NextPut ==
  \/ \E obj \in StreamObjects, reader \in Readers :
       PutObject(obj[1], obj[2], reader, Len(reader.data)) /\ Track /\ UNCHANGED << conc, http >>
  \/ \E obj \in StreamObjects, reader \in FailingReaders :
       PutObject(obj[1], obj[2], reader, Len(reader.data) + 1)
       /\ Track /\ UNCHANGED << conc, http >>
  \/ \E obj \in StreamObjects, reader \in Readers :
       PutObject(obj[1], obj[2], reader, UnknownLength) /\ Track /\ UNCHANGED << conc, http >>
  \/ \E obj \in StreamObjects, reader \in Readers \cup FailingReaders :
       PutObjectClose(obj[1], obj[2], reader, Len(reader.data), TRUE)
       /\ Track /\ UNCHANGED << conc, http >>
  \/ \E obj \in StreamObjects : GetObject(obj[1], obj[2]) /\ Track /\ UNCHANGED << conc, http >>
  \/ \E obj \in StreamObjects : DeleteObject(obj[1], obj[2]) /\ Track /\ UNCHANGED << conc, http >>
  \/ \E prefix \in RootPrefixes :
       ListObjects(<< "a" >>, prefix) /\ Track /\ UNCHANGED << conc, http >>

Spec == Init /\ [][Next]_vars
SpecRoot == Init /\ [][NextRoot]_vars
SpecPut == Init /\ [][NextPut]_vars


(***************************************************************************)
(* what a caller observes                                                  *)
(***************************************************************************)

KeysOf(objects) == {objects[i].Key : i \in 1..Len(objects)}
NamesOf(buckets) == {buckets[i].Name : i \in 1..Len(buckets)}

\* GetObject followed by reading the stream to its end
Got(f, bucket, key) ==
  LET r == GetObjectBody(f, bucket, key)
      s == ReadStream(r.fs, r.file)
  IN IF r.err THEN [data |-> << >>, err |-> TRUE, size |-> 0, readErr |-> FALSE]
     ELSE [data |-> s.data, err |-> FALSE, size |-> r.size, readErr |-> s.err]

\* the bucket names ListBuckets returns (none when it fails)
Listed(f) == NamesOf(ListBucketsBody(f).buckets)

\* every success answered 200
StatusDelete200(op, err) ==
  IF err THEN (IF op = "GetObject" THEN 404 ELSE 500) ELSE 200

\* every error answered 500
StatusGet500(op, err) ==
  IF err THEN 500
  ELSE (IF op \in {"DeleteBucket", "DeleteObject"} THEN 204 ELSE 200)

\* the status ServeHTTP answers with for a backend call: chosen by call site
Status(op, err) ==
  IF err THEN (IF op = "GetObject" THEN 404 ELSE 500)
  ELSE (IF op \in {"DeleteBucket", "DeleteObject"} THEN 204 ELSE 200)

WriteOps == {"CreateBucket", "DeleteBucket", "PutObject", "DeleteObject"}

\* the path a write call acts on
Target(c) ==
  IF c.op \in {"CreateBucket", "DeleteBucket"} THEN BucketPaths[c.bucket]
  ELSE ObjectPaths[<< c.bucket, c.key >>]

(***************************************************************************)
(* the HTTP handler, one request at a time                                 *)
(***************************************************************************)

\* strings.TrimPrefix
TrimPrefix(s, prefix) ==
  IF HasPrefix(s, prefix) THEN SubSeq(s, Len(prefix) + 1, Len(s)) ELSE s

\* a split that yields no part for the empty string
SplitNEmpty(s, sep, n) ==
  LET i == Index(s, sep)
  IN IF s = << >> THEN << >>
     ELSE IF n = 1 \/ i = 0 THEN << s >>
     ELSE << SubSeq(s, 1, i - 1), SubSeq(s, i + 1, Len(s)) >>

\* strings.SplitN(s, sep, n) for a one-character sep and n > 0: at most n
\* parts, the last one the unsplit rest; always at least one part
RECURSIVE SplitN(_, _, _)
SplitN(s, sep, n) ==
  LET i == Index(s, sep)
  IN IF n = 1 \/ i = 0 THEN << s >>
     ELSE << SubSeq(s, 1, i - 1) >> \o SplitN(SubSeq(s, i + 1, Len(s)), sep, n - 1)

\* the namespace literal of both result types' XMLName tags
Namespace == "http://s3.amazonaws.com/doc/2006-03-01/"

\* http.ResponseWriter: the header map, the status line once written together
\* with the headers as they were at that moment, the body pieces, the codes
\* of all WriteHeader calls, and the Write calls the connection still takes
NoHeader == [ContentType |-> "", ContentLength |-> -1]
NewWriter == [status |-> 0, body |-> << >>, header |-> NoHeader, sent |-> NoHeader,
              codes |-> << >>, left |-> NoFailure]

NoXML == [Name |-> NoStr, space |-> "", local |-> "", Contents |-> << >>,
          Buckets |-> << >>]
Piece(kind, text, data, xml) == [data |-> data, kind |-> kind, text |-> text, xml |-> xml]

\* w.Header().Set(name, value)
SetHeader(w, name, value) == [w EXCEPT !.header[name] = value]

\* a WriteHeader whose every call replaces the status
WriteHeaderLastWins(w, code) ==
  [w EXCEPT !.status = code, !.sent = w.header, !.codes = Append(@, code)]

\* w.WriteHeader(code): the first call fixes the status and sends the
\* headers; a later call is superfluous and changes nothing the client sees
WriteHeader(w, code) ==
  IF w.status # 0 THEN [w EXCEPT !.codes = Append(@, code)]
  ELSE [w EXCEPT !.status = code, !.sent = w.header, !.codes = Append(@, code)]

\* w.Write returns an error: the connection takes no more
WriteFails(w) == w.left = 0

\* w.Write(piece): writes the header with status 200 first if none was
\* written; on a broken connection nothing reaches the client
Write(w, piece) ==
  LET started == IF w.status = 0 THEN WriteHeader(w, 200) ELSE w
  IN IF WriteFails(w) THEN started
     ELSE [started EXCEPT !.body = Append(@, piece), !.left = @ - 1]

\* http.Error(w, msg, code)
Error(w, msg, code) ==
  LET plain == [w EXCEPT !.header = [ContentType |-> "text/plain; charset=utf-8",
                                     ContentLength |-> -1]]
  IN Write(WriteHeader(plain, code), Piece("text", msg, << >>, NoXML))

\* the XML listing written with the Content-Type set after the status line
WriteXMLHeaderLate(w, response) ==
  LET a == WriteHeader(w, 200)
      b == SetHeader(a, "ContentType", "application/xml")
      c == Write(b, Piece("text", "xml.Header", << >>, NoXML))
  IN Write(c, Piece("xml", "", << >>, response))

\* xml.NewEncoder(w).Encode(response) after xml.Header went out: the encoder
\* writes the root element with the XMLName of its type; http.Error if the
\* write fails
Encode(w, response) ==
  IF WriteFails(w) THEN Error(w, "err", 500)
  ELSE Write(w, Piece("xml", "", << >>, response))

\* w.Write([]byte(xml.Header)), then the document; http.Error if the write fails
WriteDocument(w, response) ==
  IF WriteFails(w) THEN Error(w, "err", 500)
  ELSE Encode(Write(w, Piece("text", "xml.Header", << >>, NoXML)), response)

\* a listing response: Content-Type, status 200, xml.Header, the encoded document
WriteXML(w, response) ==
  LET a == SetHeader(w, "ContentType", "application/xml")
      b == WriteHeader(a, 200)
  IN WriteDocument(b, response)

\* BucketInfo(bucket) and ObjectInfo(obj) for each entry
BucketInfos(buckets) == [i \in 1..Len(buckets) |-> [Name |-> buckets[i].Name]]
ObjectInfos(objects) ==
  [i \in 1..Len(objects) |->
     [Key |-> objects[i].Key, Size |-> objects[i].Size, ETag |-> objects[i].ETag]]

ListAllMyBucketsResult(bucketInfos) ==
  [NoXML EXCEPT !.space = Namespace, !.local = "ListAllMyBucketsResult",
                !.Buckets = bucketInfos]
ListBucketResult(name, objectInfos) ==
  [NoXML EXCEPT !.space = Namespace, !.local = "ListBucketResult",
                !.Name = name, !.Contents = objectInfos]

NoCall == Call("none", NoStr, NoStr, NoStr, NoReader, 0, FALSE, NoOut)

\* what serving a request amounts to: the filesystem after it, the backend
\* calls it made, the response
Served(f, calls, w) == [fs |-> f, w |-> w, calls |-> calls]

\* a call that returns only an error: http.Error on failure, else the
\* status line alone
Answer(w, op, bucket, key, body, length, res) ==
  Served(res.fs, << Call(op, bucket, key, NoStr, body, length, res.err, NoOut) >>,
         IF res.err THEN Error(w, "err", Status(op, TRUE))
         ELSE WriteHeader(w, Status(op, FALSE)))

AnswerListBuckets(f, w, res) ==
  Served(f, << Call("ListBuckets", NoStr, NoStr, NoStr, NoReader, 0, res.err,
                    [NoOut EXCEPT !.buckets = res.buckets]) >>,
         IF res.err THEN Error(w, "err", Status("ListBuckets", TRUE))
         ELSE WriteXML(w, ListAllMyBucketsResult(BucketInfos(res.buckets))))

AnswerListObjects(f, w, bucket, prefix, res) ==
  Served(f, << Call("ListObjects", bucket, NoStr, prefix, NoReader, 0, res.err,
                    [NoOut EXCEPT !.objects = res.objects]) >>,
         IF res.err THEN Error(w, "err", Status("ListObjects", TRUE))
         ELSE WriteXML(w, ListBucketResult(bucket, ObjectInfos(res.objects))))

\* Content-Length from the returned size, status 200, then io.Copy(w, rc):
\* s is what reading rc to its end yields
CopyObject(w, size, s) ==
  LET a == SetHeader(w, "ContentLength", size)
      b == WriteHeader(a, Status("GetObject", FALSE))
  IN IF s.err \/ s.data = << >> THEN b
     ELSE Write(b, Piece("bytes", "", s.data, NoXML))

AnswerGetObject(f, w, bucket, key, res, s) ==
  Served(f, << Call("GetObject", bucket, key, NoStr, NoReader, 0, res.err,
                    IF res.err THEN NoOut
                    ELSE [NoOut EXCEPT !.data = s.data, !.size = res.size,
                                       !.readErr = s.err]) >>,
         IF res.err THEN Error(w, "err", Status("GetObject", TRUE))
         ELSE CopyObject(w, res.size, s))

GetAndCopy(f, w, bucket, key, res) ==
  AnswerGetObject(res.fs, w, bucket, key, res, ReadStream(res.fs, res.file))

\* the response writer of a request: fresh, on the request's connection
Conn(r) == [NewWriter EXCEPT !.left = r.writes]

\* GET with the empty path
ServeListBuckets(f, r) == AnswerListBuckets(f, Conn(r), ListBucketsBody(f))

\* case http.MethodPut
ServePut(f, r, bucket, key) ==
  IF key = NoStr
  THEN Answer(Conn(r), "CreateBucket", bucket, NoStr, NoReader, 0,
              CreateBucketBody(f, bucket))
  ELSE Answer(Conn(r), "PutObject", bucket, key, r.body, r.length,
              PutObjectBody(f, bucket, key, r.body, r.length))

\* case http.MethodGet
ServeGet(f, r, bucket, key) ==
  IF key = NoStr
  THEN AnswerListObjects(f, Conn(r), bucket, r.prefix,
                         ListObjectsBody(f, bucket, r.prefix))
  ELSE GetAndCopy(f, Conn(r), bucket, key, GetObjectBody(f, bucket, key))

\* case http.MethodDelete
ServeDelete(f, r, bucket, key) ==
  IF key = NoStr
  THEN Answer(Conn(r), "DeleteBucket", bucket, NoStr, NoReader, 0,
              DeleteBucketBody(f, bucket))
  ELSE Answer(Conn(r), "DeleteObject", bucket, key, NoReader, 0,
              DeleteObjectBody(f, bucket, key))

\* the switch on r.Method with HEAD served like GET
DispatchHeadAsGet(f, r, bucket, key) ==
  IF r.method = "PUT" THEN ServePut(f, r, bucket, key)
  ELSE IF r.method \in {"GET", "HEAD"} THEN ServeGet(f, r, bucket, key)
  ELSE IF r.method = "DELETE" THEN ServeDelete(f, r, bucket, key)
  ELSE Served(f, << >>, Error(Conn(r), "Method not allowed", 405))

\* switch r.Method
Dispatch(f, r, bucket, key) ==
  IF r.method = "PUT" THEN ServePut(f, r, bucket, key)
  ELSE IF r.method = "GET" THEN ServeGet(f, r, bucket, key)
  ELSE IF r.method = "DELETE" THEN ServeDelete(f, r, bucket, key)
  ELSE Served(f, << >>, Error(Conn(r), "Method not allowed", 405))

\* the key dropped: every request addresses the bucket
RouteNoKey(f, r, parts) == Dispatch(f, r, parts[1], NoStr)

\* bucket := parts[0]; key = parts[1] when there is one
Route(f, r, parts) ==
  Dispatch(f, r, parts[1], IF Len(parts) > 1 THEN parts[2] ELSE NoStr)

Parsed(f, r, path, parts) ==
  IF path = << >> /\ r.method = "GET" THEN ServeListBuckets(f, r)
  ELSE IF Len(parts) = 0
       THEN Served(f, << >>, Error(Conn(r), "Invalid request", 400))
       ELSE Route(f, r, parts)

Split2(f, r, path) == Parsed(f, r, path, SplitN(path, "/", 2))

\* S3Server.ServeHTTP
Serve(f, r) == Split2(f, r, TrimPrefix(r.path, << "/" >>))

\* the requests: r.Method, r.URL.Path, the prefix query parameter, r.Body and
\* r.ContentLength, on a connection that takes every write
Request(method, path, prefix, body) ==
  [prefix |-> prefix, path |-> path, body |-> body, method |-> method,
   length |-> Len(body.data), writes |-> NoFailure]

\* the request on a connection that breaks after taking n writes
Broken(r, n) == [r EXCEPT !.writes = n]
NoRequest == Request("", NoStr, NoStr, NoReader)

URLPaths == { << "/" >>, << "/", "a" >>, << "/", "a", "/" >>, << "/", "a", "/", "d" >>,
              << "/", "a", "/", "d", "/", "k" >>, << "/", "/", "d" >>, << "/", "d" >> }
OtherMethods == {"POST", "HEAD"}

Record(r, res) ==
  /\ fs' = res.fs
  /\ last' = IF res.calls = << >> THEN NoCall ELSE res.calls[Len(res.calls)]
  /\ http' = [w |-> res.w, r |-> r, calls |-> res.calls]

ServeHTTP(r) ==
  /\ Record(r, Serve(fs, r))
  /\ UNCHANGED << history, conc >>

NextHTTP ==
  \/ \E path \in URLPaths, prefix \in {NoStr, << "d" >>} :
       ServeHTTP(Request("GET", path, prefix, NoReader))
  \/ \E path \in URLPaths, body \in Readers :
       ServeHTTP(Request("PUT", path, NoStr, body))
  \/ \E path \in URLPaths : ServeHTTP(Request("DELETE", path, NoStr, NoReader))
  \/ \E method \in OtherMethods, path \in URLPaths :
       ServeHTTP(Request(method, path, NoStr, NoReader))

SpecHTTP == Init /\ [][NextHTTP]_vars

\* requests whose connection may break while the response is written
NextBroken ==
  \/ \E path \in URLPaths, n \in 0..(NoFailure - 1) :
       ServeHTTP(Broken(Request("GET", path, NoStr, NoReader), n))
  \/ \E path \in URLPaths, body \in Readers :
       ServeHTTP(Request("PUT", path, NoStr, body))

SpecBroken == Init /\ [][NextBroken]_vars

(***************************************************************************)
(* concurrent requests: each goroutine serves one request at a time; a     *)
(* method holds S3Server.mu from its first statement to its return, and    *)
(* what ServeHTTP does with the result happens after the method returned   *)
(***************************************************************************)

\* the requests in flight: one bucket, one key, full-length bodies of
\* different bytes
ConcPayloads == {Bytes(MaxLen + 1, v) : v \in ByteValues}
ConcRequests ==
  { Req("ListBuckets", NoStr, NoStr, NoStr, NoReader),
    Req("CreateBucket", << "a" >>, NoStr, NoStr, NoReader),
    Req("DeleteBucket", << "a" >>, NoStr, NoStr, NoReader),
    Req("GetObject", << "a" >>, << "d" >>, NoStr, NoReader),
    Req("DeleteObject", << "a" >>, << "d" >>, NoStr, NoReader),
    Req("ListObjects", << "a" >>, NoStr, NoStr, NoReader) }
  \cup { Req("PutObject", << "a" >>, << "d" >>, NoStr, [data |-> data, fail |-> FALSE]) :
           data \in ConcPayloads }

\* DeleteObject taking the read lock
LockOfDeleteShared(op) ==
  IF op \in {"ListBuckets", "GetObject", "ListObjects", "DeleteObject"}
  THEN "RLock" ELSE "Lock"

\* PutObject taking the read lock
LockOfPutShared(op) ==
  IF op \in {"ListBuckets", "GetObject", "ListObjects", "PutObject"}
  THEN "RLock" ELSE "Lock"

\* which side of s.mu a method takes on entry (and releases by defer)
LockOf(op) ==
  IF op \in {"ListBuckets", "GetObject", "ListObjects"} THEN "RLock" ELSE "Lock"

\* a method whose error returns leave s.mu locked
ReleaseUnlessErr(p) ==
  IF loc'[p].err THEN mu
  ELSE IF LockOf(req[p].op) = "Lock" THEN [mu EXCEPT !.w = NoProc]
  ELSE [mu EXCEPT !.readers = @ \ {p}]

\* s.mu after the deferred Unlock / RUnlock of p's method
Release(p) ==
  IF LockOf(req[p].op) = "Lock" THEN [mu EXCEPT !.w = NoProc]
  ELSE [mu EXCEPT !.readers = @ \ {p}]

\* p is between the lock and the unlock of its method
Inside(p) == pc[p] \in {"in", "copy"}

\* the handler's response is complete: p's response is l
Finish(p, l) ==
  /\ pc' = [pc EXCEPT ![p] = "done"]
  /\ loc' = [loc EXCEPT ![p] = l]

\* a request arrives
Start(p, r) ==
  /\ pc[p] = "idle"
  /\ pc' = [pc EXCEPT ![p] = "lock"]
  /\ req' = [req EXCEPT ![p] = r]
  /\ UNCHANGED << fs, mu, loc, stored >>

\* sync.RWMutex.Lock: first exclude other writers and new readers ...
Lock(p) ==
  /\ pc[p] = "lock" /\ LockOf(req[p].op) = "Lock"
  /\ mu.w = NoProc
  /\ mu' = [mu EXCEPT !.w = p]
  /\ pc' = [pc EXCEPT ![p] = "drain"]
  /\ UNCHANGED << fs, req, loc, stored >>

\* ... then wait for the readers inside to leave
Drained(p) ==
  /\ pc[p] = "drain"
  /\ mu.readers = {}
  /\ pc' = [pc EXCEPT ![p] = "in"]
  /\ UNCHANGED << fs, mu, req, loc, stored >>

\* sync.RWMutex.RLock: blocked while a writer holds or is taking the lock
RLock(p) ==
  /\ pc[p] = "lock" /\ LockOf(req[p].op) = "RLock"
  /\ mu.w = NoProc
  /\ mu' = [mu EXCEPT !.readers = @ \cup {p}]
  /\ pc' = [pc EXCEPT ![p] = "in"]
  /\ UNCHANGED << fs, req, loc, stored >>

ListBucketsLocked(p) ==
  /\ pc[p] = "in" /\ req[p].op = "ListBuckets"
  /\ LET r == ListBucketsBody(fs)
     IN Finish(p, [NoLoc EXCEPT !.err = r.err, !.buckets = r.buckets,
                                !.status = Status("ListBuckets", r.err)])
  /\ mu' = Release(p)
  /\ UNCHANGED << fs, req, stored >>

CreateBucketLocked(p) ==
  /\ pc[p] = "in" /\ req[p].op = "CreateBucket"
  /\ LET r == CreateBucketBody(fs, req[p].bucket)
     IN /\ fs' = r.fs
        /\ Finish(p, [NoLoc EXCEPT !.err = r.err,
                                   !.status = Status("CreateBucket", r.err)])
  /\ mu' = Release(p)
  /\ UNCHANGED << req, stored >>

DeleteBucketLocked(p) ==
  /\ pc[p] = "in" /\ req[p].op = "DeleteBucket"
  /\ LET r == DeleteBucketBody(fs, req[p].bucket)
     IN /\ fs' = r.fs
        /\ Finish(p, [NoLoc EXCEPT !.err = r.err,
                                   !.status = Status("DeleteBucket", r.err)])
  /\ mu' = Release(p)
  /\ UNCHANGED << req, stored >>

\* os.Remove of a file others hold open: their handles keep its bytes
DeleteObjectLocked(p) ==
  /\ pc[p] = "in" /\ req[p].op = "DeleteObject"
  /\ LET objectPath == ObjectPaths[<< req[p].bucket, req[p].key >>]
         r == DeleteObjectBody(fs, req[p].bucket, req[p].key)
         gone == ~r.err /\ IsRegular(fs, objectPath)
     IN /\ fs' = r.fs
        /\ pc' = [pc EXCEPT ![p] = "done"]
        /\ loc' = [q \in Procs |->
                    IF q = p
                    THEN [NoLoc EXCEPT !.err = r.err,
                                       !.status = Status("DeleteObject", r.err)]
                    ELSE IF /\ gone /\ loc[q].file.open /\ ~loc[q].file.detached
                            /\ loc[q].file.path = objectPath
                         THEN [loc[q] EXCEPT !.file.detached = TRUE,
                                             !.file.data = fs[objectPath].data]
                         ELSE loc[q]]
  /\ mu' = Release(p)
  /\ UNCHANGED << req, stored >>

ListObjectsLocked(p) ==
  /\ pc[p] = "in" /\ req[p].op = "ListObjects"
  /\ LET r == ListObjectsBody(fs, req[p].bucket, req[p].prefix)
     IN Finish(p, [NoLoc EXCEPT !.err = r.err, !.objects = r.objects,
                                !.status = Status("ListObjects", r.err)])
  /\ mu' = Release(p)
  /\ UNCHANGED << fs, req, stored >>

\* PutObject up to os.Create: the object's directory is made and the file is
\* created or, if it exists, emptied; an error returns at once
PutObjectCreate(p) ==
  /\ pc[p] = "in" /\ req[p].op = "PutObject"
  /\ LET objectPath == ObjectPaths[<< req[p].bucket, req[p].key >>]
         made == MkdirAll(fs, Dir(objectPath))
         file == Create(made.fs, objectPath)
     IN IF made.err \/ file.err
        THEN /\ fs' = made.fs
             /\ Finish(p, [NoLoc EXCEPT !.err = TRUE,
                                        !.status = Status("PutObject", TRUE)])
             /\ mu' = Release(p)
        ELSE /\ fs' = file.fs
             /\ pc' = [pc EXCEPT ![p] = "copy"]
             /\ loc' = [loc EXCEPT ![p] =
                          [NoLoc EXCEPT !.file = [NoFile EXCEPT !.open = TRUE,
                                                                !.path = objectPath]]]
             /\ UNCHANGED mu
  /\ UNCHANGED << req, stored >>

\* io.Copy(file, reader): the next piece of the body is written at the
\* file's offset
PutObjectCopy(p) ==
  /\ pc[p] = "copy"
  /\ loc[p].off < Len(req[p].reader.data)
  /\ LET f == loc[p].file
         byte == req[p].reader.data[loc[p].off + 1]
     IN IF f.detached \/ ~IsRegular(fs, f.path)
        THEN /\ loc' = [loc EXCEPT ![p].off = @ + 1, ![p].file.data = Append(@, byte)]
             /\ UNCHANGED fs
        ELSE /\ loc' = [loc EXCEPT ![p].off = @ + 1]
             /\ fs' = WriteFile(fs, f.path, << byte >>)
  /\ UNCHANGED << mu, pc, req, stored >>

\* the reader is at EOF: the file is closed, the lock released, nil returned
PutObjectReturn(p) ==
  /\ pc[p] = "copy"
  /\ loc[p].off = Len(req[p].reader.data)
  /\ Finish(p, [NoLoc EXCEPT !.err = req[p].reader.fail,
                             !.status = Status("PutObject", req[p].reader.fail)])
  /\ stored' = IF req[p].reader.fail THEN stored ELSE stored \cup {req[p].reader.data}
  /\ mu' = Release(p)
  /\ UNCHANGED << fs, req >>

\* GetObject: stat and open under the read lock, which the return releases;
\* ServeHTTP then answers 404, or 200 with Content-Length from the stat and
\* the open file still to be copied
GetObjectLocked(p) ==
  /\ pc[p] = "in" /\ req[p].op = "GetObject"
  /\ LET r == GetObjectBody(fs, req[p].bucket, req[p].key)
     IN /\ fs' = r.fs
        /\ IF r.err
           THEN Finish(p, [NoLoc EXCEPT !.err = TRUE, !.status = Status("GetObject", TRUE)])
           ELSE
             /\ pc' = [pc EXCEPT ![p] = "stream"]
             /\ loc' = [loc EXCEPT ![p] =
                          [NoLoc EXCEPT !.status = Status("GetObject", FALSE),
                                        !.size = r.size,
                                        !.file = [NoFile EXCEPT !.open = TRUE,
                                                                !.path = r.file,
                                                                !.dir = IsDir(fs, r.file)]]]
  /\ mu' = Release(p)
  /\ UNCHANGED << req, stored >>

\* the bytes an open file holds now
FileData(file) ==
  IF file.detached THEN file.data
  ELSE IF IsRegular(fs, file.path) THEN fs[file.path].data
  ELSE << >>

\* io.Copy(w, reader) in ServeHTTP, one piece at a time: it goes on while the
\* file has bytes past the offset and the response has room up to its
\* Content-Length
MoreToCopy(p) ==
  /\ ~loc[p].file.dir
  /\ Len(loc[p].body) < Len(FileData(loc[p].file))
  /\ Len(loc[p].body) < loc[p].size

GetObjectCopy(p) ==
  /\ pc[p] = "stream"
  /\ MoreToCopy(p)
  /\ loc' = [loc EXCEPT ![p].body = Append(@, FileData(loc[p].file)[Len(@) + 1])]
  /\ UNCHANGED << fs, mu, pc, req, stored >>

\* io.Copy ends (EOF, a read error, or the response is full); reader.Close()
GetObjectEnd(p) ==
  /\ pc[p] = "stream"
  /\ ~MoreToCopy(p)
  /\ Finish(p, [loc[p] EXCEPT !.file = NoFile])
  /\ UNCHANGED << fs, mu, req, stored >>

\* the response is sent; the goroutine is free for the next request
Return(p) ==
  /\ pc[p] = "done"
  /\ pc' = [pc EXCEPT ![p] = "idle"]
  /\ req' = [req EXCEPT ![p] = NoReq]
  /\ loc' = [loc EXCEPT ![p] = NoLoc]
  /\ UNCHANGED << fs, mu, stored >>

NextConc ==
  \/ \E p \in Procs, r \in ConcRequests : Start(p, r) /\ UNCHANGED << last, history, http >>
  \/ \E p \in Procs : Lock(p) /\ UNCHANGED << last, history, http >>
  \/ \E p \in Procs : Drained(p) /\ UNCHANGED << last, history, http >>
  \/ \E p \in Procs : RLock(p) /\ UNCHANGED << last, history, http >>
  \/ \E p \in Procs : ListBucketsLocked(p) /\ UNCHANGED << last, history, http >>
  \/ \E p \in Procs : CreateBucketLocked(p) /\ UNCHANGED << last, history, http >>
  \/ \E p \in Procs : DeleteBucketLocked(p) /\ UNCHANGED << last, history, http >>
  \/ \E p \in Procs : DeleteObjectLocked(p) /\ UNCHANGED << last, history, http >>
  \/ \E p \in Procs : ListObjectsLocked(p) /\ UNCHANGED << last, history, http >>
  \/ \E p \in Procs : PutObjectCreate(p) /\ UNCHANGED << last, history, http >>
  \/ \E p \in Procs : PutObjectCopy(p) /\ UNCHANGED << last, history, http >>
  \/ \E p \in Procs : PutObjectReturn(p) /\ UNCHANGED << last, history, http >>
  \/ \E p \in Procs : GetObjectLocked(p) /\ UNCHANGED << last, history, http >>
  \/ \E p \in Procs : GetObjectCopy(p) /\ UNCHANGED << last, history, http >>
  \/ \E p \in Procs : GetObjectEnd(p) /\ UNCHANGED << last, history, http >>
  \/ \E p \in Procs : Return(p) /\ UNCHANGED << last, history, http >>

SpecConc == Init /\ [][NextConc]_vars

\* p takes its side of s.mu
Acquire(p) == (Lock(p) \/ RLock(p)) /\ UNCHANGED << last, history, http >>

\* any other step of p's handler: the readers have drained, a filesystem
\* call returns, a piece of a stream is copied, the method returns
Proceed(p) ==
  /\ \/ Drained(p)
     \/ ListBucketsLocked(p) \/ CreateBucketLocked(p) \/ DeleteBucketLocked(p)
     \/ DeleteObjectLocked(p) \/ ListObjectsLocked(p)
     \/ PutObjectCreate(p) \/ PutObjectCopy(p) \/ PutObjectReturn(p)
     \/ GetObjectLocked(p) \/ GetObjectCopy(p) \/ GetObjectEnd(p)
  /\ UNCHANGED << last, history, http >>

\* a goroutine that can run does run, and a goroutine that asks for s.mu
\* gets it if the lock is free again and again (sync.Mutex hands the lock to
\* a starved waiter; a pending writer holds back new readers)
SpecConcFair ==
  SpecConc /\ \A p \in Procs : SF_vars(Acquire(p)) /\ WF_vars(Proceed(p))

(***************************************************************************)
(* claims                                                                  *)
(***************************************************************************)

\* C1: round trip.  Right after a successful PutObject(b, k, P), GetObject(b, k)
\* succeeds and its stream yields exactly P, with the reported size Len(P); and
\* what GetObject returns for a stored object stays the same across every call
\* that is not a write to the file that object is stored in.
C1_Stored ==
  (last.op = "PutObject" /\ ~last.err) =>
     Got(fs, last.bucket, last.key) =
       [data |-> last.reader.data, err |-> FALSE, size |-> Len(last.reader.data),
        readErr |-> FALSE]
C1_Kept ==
  \A obj \in Objects :
     LET before == Got(fs, obj[1], obj[2])
     IN (/\ ~before.err /\ ~before.readErr
         /\ ~(last'.op \in WriteOps /\ Target(last') = ObjectPaths[obj]))
        => Got(fs', obj[1], obj[2]) = before
C1_RoundTrip == [](C1_Stored) /\ [][C1_Kept]_vars
C1_Witness ==
  /\ last.op = "PutObject" /\ ~last.err
  /\ last.key = << "d", "/", "k" >>
  /\ Len(last.reader.data) = MaxLen
  /\ IsRegular(fs, ObjectPaths[<< << "b" >>, << "d" >> >>])

\* C2: listing completeness.  While nothing has been deleted, ListObjects(b, "")
\* succeeds for every bucket b that keys were written into and returns exactly
\* the keys PutObject stored successfully in b.
C2_ListingComplete ==
  noDelete =>
    \A b \in RootBucketNames :
       written[b] # {} =>
         LET l == ListObjectsBody(fs, b, NoStr)
         IN ~l.err /\ KeysOf(l.objects) = written[b]

\* C3: prefix filter.  ListObjects(b, p) returns exactly the objects of
\* ListObjects(b, "") whose key starts with p, in the same order, and fails
\* exactly when ListObjects(b, "") fails.
C3_StartsWith(o) == HasPrefix(o.Key, last.prefix)
C3_PrefixFilter ==
  last.op = "ListObjects" =>
    LET all == ListObjectsBody(fs, last.bucket, NoStr)
    IN /\ last.err = all.err
       /\ last.out.objects = SelectSeq(all.objects, C3_StartsWith)
C3_Witness ==
  /\ last.op = "ListObjects" /\ ~last.err
  /\ last.prefix = << "d" >>
  /\ KeysOf(last.out.objects) = { << "d", "/", "k" >>, << "d", "k" >> }

\* C4: deletion effect.  From a successful DeleteObject(b, k) until the next
\* PutObject to that object, GetObject(b, k) fails (GET answers 404) and no
\* ListObjects(b, p) lists k.
C4_DeletionEffect ==
  deleted # << >> =>
    LET b == deleted[1]
        k == deleted[2]
        g == GetObjectBody(fs, b, k)
    IN /\ g.err
       /\ Status("GetObject", g.err) = 404
       /\ \A p \in RootPrefixes : k \notin KeysOf(ListObjectsBody(fs, b, p).objects)

\* C5: CreateBucket on a bucket that ListBuckets already lists returns no
\* error, changes nothing in the filesystem (the objects of every bucket stay
\* as they are), and the bucket is listed exactly once.
C5_Step ==
  (last'.op = "CreateBucket" /\ last'.bucket \in Listed(fs)) =>
     /\ ~last'.err
     /\ fs' = fs
     /\ LET buckets == ListBucketsBody(fs').buckets
        IN Cardinality({i \in 1..Len(buckets) : buckets[i].Name = last'.bucket}) = 1
C5_CreateIdempotent == [][C5_Step]_vars
C5_Witness ==
  /\ last.op = "CreateBucket" /\ ~last.err
  /\ ListObjectsBody(fs, last.bucket, NoStr).objects # << >>

\* C6: DeleteBucket on a bucket that holds at least one object, or on a bucket
\* that does not exist, returns an error and changes nothing.
HasObject(f, bucket) ==
  /\ IsDir(f, BucketPaths[bucket])
  /\ ListObjectsBody(f, bucket, NoStr).objects # << >>
C6_Step ==
  (/\ last'.op = "DeleteBucket"
   /\ \/ HasObject(fs, last'.bucket)
      \/ ~Exists(fs, BucketPaths[last'.bucket]))
  => (last'.err /\ fs' = fs)
C6_DeleteBucketFails == [][C6_Step]_vars
C6_Witness ==
  /\ last.op = "DeleteBucket" /\ last.err
  /\ HasObject(fs, last.bucket)

\* C7: every bucket name CreateBucket returned success for is listed by
\* ListBuckets until DeleteBucket of that name succeeds, and right after a
\* successful DeleteBucket(n) the name n is not listed.
C7_BucketListed ==
  /\ \A n \in created : n \in Listed(fs)
  /\ (last.op = "DeleteBucket" /\ ~last.err) => last.bucket \notin Listed(fs)

\* C8: PutObject, DeleteObject, GetObject, ListObjects and ListBuckets leave the
\* set of buckets ListBuckets returns as it is.
C8_Step ==
  last'.op \in {"PutObject", "DeleteObject", "GetObject", "ListObjects", "ListBuckets"}
    => Listed(fs') = Listed(fs)
C8_BucketsOnlyByCreateDelete == [][C8_Step]_vars

\* C9: mutual exclusion.  At most one of CreateBucket, DeleteBucket, PutObject
\* and DeleteObject is between its lock and its unlock, and while one is, no
\* other method (ListBuckets, GetObject and ListObjects included) is; readers
\* are not restricted among themselves.
C9_MutualExclusion ==
  \A p \in Procs : \A q \in Procs \ {p} :
     (Inside(p) /\ req[p].op \in WriteOps) => ~Inside(q)
C9_Witness ==
  \E p \in Procs : \E q \in Procs \ {p} :
     /\ pc[p] = "copy" /\ loc[p].off = MaxLen
     /\ pc[q] = "lock" /\ req[q].op = "GetObject"
     /\ stored # {}

\* two readers are between RLock and RUnlock at once
ReadersOverlap ==
  \A p \in Procs : Inside(p) /\ req[p].op \notin WriteOps

\* C10: the body of every finished 200 response to GET /{bucket}/{key} is the
\* whole payload of a PutObject of that key that returned success, whatever
\* PutObject and DeleteObject requests ran beside it.
C10_BodyIsOnePayload ==
  \A p \in Procs :
     (pc[p] = "done" /\ req[p].op = "GetObject" /\ loc[p].status = 200)
       => loc[p].body \in stored

\* C11: deadlock freedom.  A goroutine holds s.mu exactly while it is between
\* the lock and the return of its method (it took the lock once and every
\* return, error or not, has released it), and whenever every unfinished
\* request is waiting for the lock, one of them can take it.
Waiting(p) == pc[p] \in {"lock", "drain"}
CanTake(p) ==
  \/ pc[p] = "lock" /\ mu.w = NoProc
  \/ pc[p] = "drain" /\ mu.readers = {}
C11_HeldWhileInside ==
  \A p \in Procs :
     /\ (mu.w = p) <=> (pc[p] = "drain" \/ (Inside(p) /\ LockOf(req[p].op) = "Lock"))
     /\ (p \in mu.readers) <=> (Inside(p) /\ LockOf(req[p].op) = "RLock")
C11_DeadlockFree ==
  /\ C11_HeldWhileInside
  /\ ((\E p \in Procs : Waiting(p)) /\ (\A p \in Procs : Waiting(p) \/ pc[p] = "idle"))
       => \E p \in Procs : CanTake(p)
C11_Witness ==
  \E p \in Procs : \E q \in Procs \ {p} :
     /\ pc[p] = "done" /\ loc[p].err /\ req[p].op = "DeleteObject"
     /\ pc[q] = "drain"

\* C12: request routing.  A GET, PUT or DELETE request makes exactly one
\* backend call; its bucket is the path after the leading slash up to the
\* first further slash and its key is what follows that slash; the call is
\* ListBuckets for GET with the empty path, else by method GetObject,
\* PutObject, DeleteObject when the key is not empty and ListObjects,
\* CreateBucket, DeleteBucket when it is.
Routed == {"GET", "PUT", "DELETE"}
C12_OpFor(method, rest, key) ==
  IF method = "GET" /\ rest = << >> THEN "ListBuckets"
  ELSE IF key = << >>
       THEN (IF method = "GET" THEN "ListObjects"
             ELSE IF method = "PUT" THEN "CreateBucket" ELSE "DeleteBucket")
       ELSE (IF method = "GET" THEN "GetObject"
             ELSE IF method = "PUT" THEN "PutObject" ELSE "DeleteObject")
C12_Routing ==
  http.r.method \in Routed =>
    /\ Len(http.calls) = 1
    /\ LET c == http.calls[1]
           rest == Tail(http.r.path)
       IN /\ \A i \in 1..Len(c.bucket) : c.bucket[i] # "/"
          /\ \/ rest = c.bucket /\ c.key = << >>
             \/ rest = c.bucket \o << "/" >> \o c.key
          /\ c.op = C12_OpFor(http.r.method, rest, c.key)
C12_Witness ==
  /\ http.r.method = "GET"
  /\ http.r.path = << "/", "a", "/", "d", "/", "k" >>
  /\ Len(http.calls) = 1
  /\ http.calls[1].key = << "d", "/", "k" >> /\ ~http.calls[1].err

\* C13: a request whose method is not GET, PUT or DELETE is answered 405,
\* makes no backend call and leaves the filesystem as it is, whatever its path.
C13_Answer ==
  (http.r.method # "" /\ http.r.method \notin Routed) =>
     (http.w.status = 405 /\ http.calls = << >>)
C13_Unchanged == (http'.r.method \notin Routed) => fs' = fs
C13_MethodNotAllowed == [](C13_Answer) /\ [][C13_Unchanged]_vars
C13_Witness ==
  /\ http.r.method = "HEAD" /\ http.r.path = << "/" >>
  /\ IsRegular(fs, ObjectPaths[<< << "a" >>, << "d" >> >>])

\* C14: when the backend call of a request succeeds the status is 200 for GET
\* and PUT and 204 for DELETE.
C14_SuccessStatus ==
  (http.r.method \in Routed /\ Len(http.calls) = 1 /\ ~http.calls[1].err) =>
     http.w.status = (IF http.r.method = "DELETE" THEN 204 ELSE 200)
C14_Witness ==
  /\ http.r.method = "DELETE" /\ http.r.path = << "/", "a" >>
  /\ Len(http.calls) = 1 /\ ~http.calls[1].err
  /\ http.w.status = 204

\* C15: when the backend call of a request fails the status is 404 if the call
\* was GetObject and 500 for every other call.
C15_ErrorStatus ==
  (Len(http.calls) = 1 /\ http.calls[1].err) =>
     http.w.status = (IF http.calls[1].op = "GetObject" THEN 404 ELSE 500)
C15_Witness ==
  /\ http.r.method = "DELETE" /\ http.r.path = << "/", "a" >>
  /\ Len(http.calls) = 1 /\ http.calls[1].err
  /\ HasObject(fs, << "a" >>)
  /\ http.w.status = 500

\* C16: GetObject(b, k) fails whenever the path of (b, k) does not exist or is
\* not a regular file, a directory made by a nested PutObject included.
C16_GetObjectNeedsFile ==
  \A obj \in Objects :
     ~IsRegular(fs, ObjectPaths[obj]) => GetObjectBody(fs, obj[1], obj[2]).err

\* C17: DeleteObject(b, k) returns an error and changes nothing when no
\* regular file is at the path of (b, k); when it succeeds, that file and
\* nothing else is gone.
C17_Step ==
  last'.op = "DeleteObject" =>
    LET objectPath == ObjectPaths[<< last'.bucket, last'.key >>]
    IN /\ ~IsRegular(fs, objectPath) => (last'.err /\ fs' = fs)
       /\ ~last'.err => fs' = [q \in DOMAIN fs \ {objectPath} |-> fs[q]]
C17_DeleteObject == [][C17_Step]_vars

\* C18: overwrite.  A successful PutObject(b, k, P2) on a key that held an
\* object leaves GetObject(b, k) returning exactly P2 with size Len(P2), also
\* when P2 is shorter than what was there, and a key that was listed is still
\* listed, once.
C18_Overwrite ==
  (last.op = "PutObject" /\ ~last.err /\ replaced.was) =>
     /\ Got(fs, last.bucket, last.key) =
          [data |-> last.reader.data, err |-> FALSE, size |-> Len(last.reader.data),
           readErr |-> FALSE]
     /\ replaced.listed =>
          LET l == ListObjectsBody(fs, last.bucket, NoStr)
          IN /\ ~l.err
             /\ Cardinality({i \in 1..Len(l.objects) : l.objects[i].Key = last.key}) = 1
C18_Witness ==
  /\ last.op = "PutObject" /\ ~last.err
  /\ replaced.was /\ replaced.listed
  /\ Len(last.reader.data) < replaced.len

\* C19: every finished 200 response to GET /{bucket}/{key} carries as many
\* body bytes as its Content-Length says, whatever requests ran beside it.
C19_ContentLength ==
  \A p \in Procs :
     (pc[p] = "done" /\ req[p].op = "GetObject" /\ loc[p].status = 200)
       => Len(loc[p].body) = loc[p].size

\* C20: a successful listing response has status 200, was sent with
\* Content-Type application/xml, and its document has a root element in the
\* S3 namespace named after the result type; for GET /{bucket} its Name is the
\* bucket segment of the request path.  Empty listings are no exception.
C20_IsListing ==
  /\ Len(http.calls) = 1
  /\ http.calls[1].op \in {"ListBuckets", "ListObjects"}
  /\ ~http.calls[1].err
C20_ListingResponse ==
  C20_IsListing =>
    /\ http.w.status = 200
    /\ http.w.sent.ContentType = "application/xml"
    /\ Len(http.w.body) = 2
    /\ http.w.body[1].kind = "text" /\ http.w.body[2].kind = "xml"
    /\ LET doc == http.w.body[2].xml
           rest == Tail(http.r.path)
       IN /\ doc.space = "http://s3.amazonaws.com/doc/2006-03-01/"
          /\ IF http.calls[1].op = "ListBuckets"
             THEN /\ doc.local = "ListAllMyBucketsResult"
                  /\ Len(doc.Buckets) = Len(http.calls[1].out.buckets)
             ELSE /\ doc.local = "ListBucketResult"
                  /\ \A i \in 1..Len(doc.Name) : doc.Name[i] # "/"
                  /\ rest = doc.Name \/ HasPrefix(rest, doc.Name \o << "/" >>)
                  /\ Len(doc.Contents) = Len(http.calls[1].out.objects)
C20_Witness ==
  /\ C20_IsListing
  /\ http.calls[1].op = "ListObjects" /\ http.calls[1].out.objects = << >>
  /\ http.r.path = << "/", "a", "/" >>
  /\ http.w.status = 200

\* C21: keys are not checked for traversal.  PutObject, GetObject and
\* DeleteObject on bucket a with the key ../b/d do to the filesystem, and
\* return, exactly what the same call on object d of bucket b does; bucket a
\* need not even exist.
C21_Key == << ".", ".", "/", "b", "/", "d" >>
C21_Step ==
  (last'.bucket = << "a" >> /\ last'.key = C21_Key) =>
     CASE last'.op = "PutObject" ->
            LET r == PutObjectBody(fs, << "b" >>, << "d" >>, last'.reader, last'.declared)
            IN fs' = r.fs /\ last'.err = r.err
       [] last'.op = "GetObject" ->
            LET g == Got(fs, << "b" >>, << "d" >>)
            IN /\ fs' = fs /\ last'.err = g.err
               /\ ~g.err => (last'.out.data = g.data /\ last'.out.size = g.size)
       [] last'.op = "DeleteObject" ->
            LET r == DeleteObjectBody(fs, << "b" >>, << "d" >>)
            IN fs' = r.fs /\ last'.err = r.err
       [] OTHER -> TRUE
C22_Object(f, obj) ==
  IF IsRegular(f, ObjectPaths[obj])
  THEN << TRUE, f[ObjectPaths[obj]].data, NodeSize(f[ObjectPaths[obj]]) >>
  ELSE << FALSE, << >>, 0 >>
C22_Step ==
  last'.op \in {"PutObject", "DeleteObject"} =>
    \A obj \in Objects :
       (obj[1] = last'.bucket /\ obj[2] # last'.key)
         => C22_Object(fs', obj) = C22_Object(fs, obj)
C22_KeysOneToOne == [][C22_Step]_vars

\* C23: no rollback.  When the body of a PutObject breaks off after n bytes
\* (the call would have succeeded had the body ended there), PutObject
\* returns an error and the object exists holding exactly those n bytes,
\* whatever the key held before: GetObject returns them with size n and
\* ListObjects lists the key with size n.
C23_Step ==
  (/\ last'.op = "PutObject" /\ last'.reader.fail
   /\ ~PutObjectBody(fs, last'.bucket, last'.key,
                     [last'.reader EXCEPT !.fail = FALSE], last'.declared).err)
  => /\ last'.err
     /\ Got(fs', last'.bucket, last'.key) =
          [data |-> last'.reader.data, err |-> FALSE, size |-> Len(last'.reader.data),
           readErr |-> FALSE]
     /\ LET l == ListObjectsBody(fs', last'.bucket, NoStr)
        IN /\ ~l.err
           /\ \E i \in 1..Len(l.objects) :
                l.objects[i].Key = last'.key /\ l.objects[i].Size = Len(last'.reader.data)
C23_PartialObject == [][C23_Step]_vars
C23_Witness ==
  /\ last.op = "PutObject" /\ last.err /\ last.reader.fail
  /\ replaced.was /\ replaced.len > Len(last.reader.data)
  /\ IsRegular(fs, ObjectPaths[<< last.bucket, last.key >>])

\* C24: listings are linearizable with respect to writes.  At the instant
\* ListObjects computes its result no CreateBucket, DeleteBucket, PutObject or
\* DeleteObject is between its lock and its return, the result is the listing
\* of the bucket as it is at that instant, and every listed size is the size
\* of a whole request body, never of a part of one.
C24_Step ==
  \A p \in Procs :
     (pc[p] = "in" /\ req[p].op = "ListObjects" /\ pc'[p] = "done") =>
        /\ \A q \in Procs \ {p} : ~(Inside(q) /\ req[q].op \in WriteOps)
        /\ LET l == ListObjectsBody(fs, req[p].bucket, req[p].prefix)
           IN loc'[p].err = l.err /\ loc'[p].objects = l.objects
        /\ \A i \in 1..Len(loc'[p].objects) : loc'[p].objects[i].Size = MaxLen + 1
C24_Whole ==
  \A p \in Procs :
     (pc[p] = "done" /\ req[p].op = "ListObjects") =>
        \A i \in 1..Len(loc[p].objects) : loc[p].objects[i].Size = MaxLen + 1
C24_Linearizable == [](C24_Whole) /\ [][C24_Step]_vars
C24_Witness ==
  \E p \in Procs : \E q \in Procs \ {p} :
     /\ pc[p] = "done" /\ req[p].op = "ListObjects" /\ ~loc[p].err
     /\ Len(loc[p].objects) = 1
     /\ pc[q] = "drain" /\ req[q].op = "PutObject"

\* C25: the storage root survives every request.  Whatever requests were
\* served, the root is a directory and GET / would be answered 200: PUT and
\* DELETE with the empty path do not act on the root itself.
C25_RootSurvives ==
  /\ IsDir(fs, Root)
  /\ Serve(fs, Request("GET", << "/" >>, NoStr, NoReader)).w.status = 200

\* C26: DeleteObject removes the object and never a directory (the
\* directories PutObject made for a nested key stay), so that after
\* PutObject(b, "d/k") and DeleteObject(b, "d/k") the bucket lists no object,
\* yet DeleteBucket(b) returns an error and the bucket remains.
C26_Step ==
  /\ last'.op = "DeleteObject" => \A q \in DOMAIN fs : IsDir(fs, q) => IsDir(fs', q)
  /\ (/\ last'.op = "DeleteObject" /\ ~last'.err
      /\ last'.key = << "d", "/", "k" >>
      /\ IsRegular(fs, ObjectPaths[<< last'.bucket, last'.key >>])
      /\ Len(ListObjectsBody(fs, last'.bucket, NoStr).objects) = 1)
     => /\ ListObjectsBody(fs', last'.bucket, NoStr).objects = << >>
        /\ DeleteBucketBody(fs', last'.bucket).err
        /\ DeleteBucketBody(fs', last'.bucket).fs = fs'
C26_DirectoriesStay == [][C26_Step]_vars

\* C27: a key and a proper path-prefix of it are never both objects of a
\* bucket.  PutObject(b, k) returns an error and changes nothing when an
\* object exists in b whose key is k followed by "/" and more, or whose key
\* followed by "/" and more is k.
C27_PathPrefix(k1, k2) ==
  /\ Len(k1) > 0 /\ Len(k2) > Len(k1) + 1
  /\ HasPrefix(k2, k1 \o << "/" >>)
C27_Step ==
  last'.op = "PutObject" =>
    \A obj \in Objects :
       (/\ obj[1] = last'.bucket
        /\ IsRegular(fs, ObjectPaths[obj])
        /\ C27_PathPrefix(obj[2], last'.key) \/ C27_PathPrefix(last'.key, obj[2]))
       => (last'.err /\ fs' = fs)
C27_PrefixConflict == [][C27_Step]_vars
C27_Witness ==
  /\ last.op = "PutObject" /\ last.err
  /\ last.bucket = << "a" >> /\ last.key = << "d" >>
  /\ Len(last.reader.data) = MaxLen
  /\ IsRegular(fs, ObjectPaths[<< << "a" >>, << "d", "/", "k" >> >>])

\* C28: once status 200 is written for a listing or an object GET, a later
\* failure does not change it.  When the backend call of a GET succeeded,
\* the status is 200 whether or not the writes that follow fail; it is the
\* code of the first WriteHeader call, and every later call (the 500 of
\* http.Error) is without effect.
C28_StatusStays ==
  (http.r.method = "GET" /\ Len(http.calls) = 1 /\ ~http.calls[1].err) =>
     /\ http.w.status = 200
     /\ Len(http.w.codes) >= 1 /\ http.w.codes[1] = 200
     /\ http.w.sent.ContentType # "text/plain; charset=utf-8"
C28_Witness ==
  /\ http.r.method = "GET" /\ http.r.writes = 1
  /\ Len(http.calls) = 1 /\ http.calls[1].op = "ListObjects" /\ ~http.calls[1].err
  /\ http.calls[1].out.objects # << >>
  /\ http.w.codes = << 200, 500 >>
  /\ http.w.status = 200 /\ Len(http.w.body) = 1

\* C29: progress.  A PutObject that is copying its body holds the write lock
\* and no other method is between its lock and its return; and, every
\* filesystem call and body stream ending and the lock being fair, every
\* request that has started gets the lock and completes, the lock released.
C29_Streaming ==
  \A p \in Procs :
     pc[p] = "copy" => (mu.w = p /\ \A q \in Procs \ {p} : ~Inside(q))
C29_Completed(p) == pc[p] = "done" /\ mu.w # p /\ p \notin mu.readers
C29_Progress ==
  /\ [](C29_Streaming)
  /\ \A p \in Procs : (pc[p] # "idle") ~> C29_Completed(p)
C29_Witness ==
  \E p \in Procs : \E q \in Procs \ {p} :
     /\ pc[p] = "copy" /\ loc[p].off < Len(req[p].reader.data)
     /\ pc[q] = "lock" /\ req[q].op = "ListBuckets"

\* C30: reads have no effect on storage.  ListBuckets, GetObject and
\* ListObjects, succeeding or failing, for any bucket, key and prefix, leave
\* the whole tree (buckets, objects, contents) as it was.
C30_Step ==
  last'.op \in {"ListBuckets", "GetObject", "ListObjects"} => fs' = fs
C30_ReadsChangeNothing == [][C30_Step]_vars
C30_Witness ==
  /\ last.op = "GetObject" /\ ~last.err
  /\ last.bucket = << "b" >>
  /\ Len(last.out.data) = MaxLen
  /\ IsRegular(fs, ObjectPaths[<< << "a" >>, << "d", "/", "k" >> >>])

\* C31: the declared size of a PUT is honoured.  After a successful
\* PutObject(bucket, key, data, size) the stored object has size bytes: that
\* is the size GetObject reports and the number of bytes it yields.
C31_DeclaredSize ==
  (last.op = "PutObject" /\ ~last.err) =>
     /\ NodeSize(fs[ObjectPaths[<< last.bucket, last.key >>]]) = last.declared
     /\ Got(fs, last.bucket, last.key).size = last.declared

\* C32: a failure to close the object file is reported.  When the file was
\* created and every write succeeded but f.Close() fails, PutObject returns
\* an error and the PUT is answered 500.
C32_CloseReported ==
  (last.op = "PutObject" /\ last.out.closeErr /\ ~last.reader.fail) =>
     (last.err /\ Status("PutObject", last.err) = 500)

\* C33: no request is ever answered 400.  Splitting the trimmed path at its
\* first "/" yields at least one part, so the "Invalid request" branch is
\* never taken: no WriteHeader call carries 400, and the status of every
\* response is one of 200, 204, 404, 405 and 500.
C33_NoBadRequest ==
  http.r.method # "" =>
     /\ Len(SplitN(TrimPrefix(http.r.path, << "/" >>), "/", 2)) >= 1
     /\ \A i \in 1..Len(http.w.codes) : http.w.codes[i] # 400
     /\ http.w.status \in {200, 204, 404, 405, 500}
C33_Witness ==
  /\ http.r.method = "DELETE" /\ http.r.path = << "/" >>
  /\ Len(http.calls) = 1 /\ http.calls[1].op = "DeleteBucket"
  /\ http.calls[1].bucket = NoStr
  /\ http.w.status \in {204, 500}

====
